---- MODULE Spec2Model ----
(***************************************************************************)
(* A model of pysindy.optimizers.sr3.SR3 (src/pysindy/optimizers/sr3.py):  *)
(* the constructor's validation, enable_trimming / disable_trimming, and   *)
(* the iteration of _reduce with its helpers _update_full_coef,            *)
(* _update_sparse_coef, _update_trimming_array and _convergence_criterion. *)
(*                                                                         *)
(* Real numbers are exact rationals <<n, d>> with d > 0 in lowest terms.   *)
(* A matrix is a sequence of rows.  The data have one feature, so that the *)
(* Gram matrix is 1 x 1 and the Cholesky solve is a division; there are    *)
(* two samples and two targets, so that transposition, the sum over        *)
(* targets and the per-sample weights are not trivial.  Python's None is   *)
(* the empty tuple.  A string is the sequence of its characters.           *)
(***************************************************************************)
EXTENDS Integers, Sequences, FiniteSets, TLC

\* ------------------------------------------------------------------------
\* Exact rational arithmetic (the reals of numpy, without rounding)
\* ------------------------------------------------------------------------

RECURSIVE Gcd(_, _)
Gcd(a, b) == IF b = 0 THEN a ELSE Gcd(b, a % b)

AbsInt(a) == IF a < 0 THEN -a ELSE a

\* The rational n/d (d # 0) in lowest terms with a positive denominator.
Rat(n, d) ==
    LET g == Gcd(AbsInt(n), AbsInt(d))
        s == IF d < 0 THEN -1 ELSE 1
    IN  <<(s * n) \div g, (s * d) \div g>>

Zero == Rat(0, 1)
One  == Rat(1, 1)
Half == Rat(1, 2)

\* Sums, products and comparisons cancel common factors before multiplying.
Add(p, q) ==
    LET g == Gcd(p[2], q[2])
    IN  Rat(p[1] * (q[2] \div g) + q[1] * (p[2] \div g), (p[2] \div g) * q[2])
Neg(p)    == <<-p[1], p[2]>>
Sub(p, q) == Add(p, Neg(q))
Mul(p, q) ==
    LET g1 == Gcd(AbsInt(p[1]), q[2])
        g2 == Gcd(AbsInt(q[1]), p[2])
    IN  <<(p[1] \div g1) * (q[1] \div g2), (p[2] \div g2) * (q[2] \div g1)>>
Div(p, q) == Mul(p, Rat(q[2], q[1]))
Lt(p, q)  == LET g == Gcd(p[2], q[2]) IN p[1] * (q[2] \div g) < q[1] * (p[2] \div g)
Le(p, q)  == LET g == Gcd(p[2], q[2]) IN p[1] * (q[2] \div g) <= q[1] * (p[2] \div g)
Abs(p)    == <<AbsInt(p[1]), p[2]>>
Sq(p)     == Mul(p, p)
Sign(p)   == IF p[1] > 0 THEN One ELSE IF p[1] < 0 THEN Neg(One) ELSE Zero
Max(p, q) == IF Lt(p, q) THEN q ELSE p
Min(p, q) == IF Lt(p, q) THEN p ELSE q

RECURSIVE SumSeq(_)
SumSeq(s) == IF s = <<>> THEN Zero ELSE Add(Head(s), SumSeq(Tail(s)))

\* ------------------------------------------------------------------------
\* Matrices (sequences of rows) and the numpy operations sr3.py uses
\* ------------------------------------------------------------------------

NRows(m) == Len(m)
NCols(m) == Len(m[1])

\* m.T
Transpose(m) == [j \in 1..NCols(m) |-> [i \in 1..NRows(m) |-> m[i][j]]]

\* np.dot(a, b)
Dot(a, b) ==
    [i \in 1..NRows(a) |->
        [j \in 1..NCols(b) |->
            SumSeq([k \in 1..NCols(a) |-> Mul(a[i][k], b[k][j])])]]

\* elementwise a + b, a - b, and a / c for a scalar c
MatAdd(a, b) == [i \in 1..NRows(a) |-> [j \in 1..NCols(a) |-> Add(a[i][j], b[i][j])]]
MatSub(a, b) == [i \in 1..NRows(a) |-> [j \in 1..NCols(a) |-> Sub(a[i][j], b[i][j])]]
MatDivScalar(a, c) == [i \in 1..NRows(a) |-> [j \in 1..NCols(a) |-> Div(a[i][j], c)]]

\* np.sum(m ** 2)
SumSquares(m) == SumSeq([i \in 1..NRows(m) |-> SumSeq([j \in 1..NCols(m) |-> Sq(m[i][j])])])

\* np.zeros_like(m)
ZerosLike(m) == [i \in 1..NRows(m) |-> [j \in 1..NCols(m) |-> Zero]]

\* The same for a vector (the trimming weights)
VecSub(a, b) == [i \in 1..Len(a) |-> Sub(a[i], b[i])]
VecSumSquares(v) == SumSeq([i \in 1..Len(v) |-> Sq(v[i])])
VecZerosLike(v) == [i \in 1..Len(v) |-> Zero]

None == <<>>

\* ------------------------------------------------------------------------
\* Strings: str.lower() and the slice s[:8]
\* ------------------------------------------------------------------------

UpperCase == <<"A", "B", "C", "D", "E", "F", "G", "H", "I", "J", "K", "L", "M",
               "N", "O", "P", "Q", "R", "S", "T", "U", "V", "W", "X", "Y", "Z">>
LowerCase == <<"a", "b", "c", "d", "e", "f", "g", "h", "i", "j", "k", "l", "m",
               "n", "o", "p", "q", "r", "s", "t", "u", "v", "w", "x", "y", "z">>

LowerChar(c) ==
    IF \E i \in 1..Len(UpperCase) : UpperCase[i] = c
    THEN LowerCase[CHOOSE i \in 1..Len(UpperCase) : UpperCase[i] = c]
    ELSE c

\* s.lower()
Lower(s) == [i \in 1..Len(s) |-> LowerChar(s[i])]

\* s[:n]
Prefix(s, n) == SubSeq(s, 1, IF Len(s) < n THEN Len(s) ELSE n)

str_l0 == <<"l", "0">>
str_l1 == <<"l", "1">>
str_l2 == <<"l", "2">>
str_cad == <<"c", "a", "d">>
str_weighted == <<"w", "e", "i", "g", "h", "t", "e", "d">>
str_weighted_l0 == str_weighted \o <<"_">> \o str_l0
str_weighted_l1 == str_weighted \o <<"_">> \o str_l1
str_weighted_l2 == str_weighted \o <<"_">> \o str_l2

\* The tuple of names the constructor accepts (lines 164-172).
ValidThresholders ==
    {str_l0, str_l1, str_l2, str_weighted_l0, str_weighted_l1, str_weighted_l2, str_cad}

\* ------------------------------------------------------------------------
\* Collaborators of sr3.py that the repository keeps in other files
\* ------------------------------------------------------------------------

\* The proximal operators, elementwise on a value v and a threshold t >= 0.
ProxL0(v, t)  == IF Le(t, Abs(v)) THEN v ELSE Zero
ProxL1(v, t)  == Mul(Sign(v), Max(Sub(Abs(v), t), Zero))
ProxL2(v, t)  == Div(v, Add(One, Mul(Rat(2, 1), t)))
ProxCad(v, t) ==
    IF Lt(Abs(v), t) THEN Zero
    ELSE IF Le(Mul(Rat(2, 1), t), Abs(v)) THEN v
    ELSE Mul(Sign(v), Mul(Rat(2, 1), Sub(Abs(v), t)))

\* get_prox(thresholder): the operator a (case-insensitive) name selects.
\* The weighted names select the same formula, applied entry by entry.
get_prox(name) ==
    LET n == Lower(name)
    IN  IF n \in {str_l0, str_weighted_l0} THEN "prox_l0"
        ELSE IF n \in {str_l1, str_weighted_l1} THEN "prox_l1"
        ELSE IF n \in {str_l2, str_weighted_l2} THEN "prox_l2"
        ELSE "prox_cad"

ProxEntry(p, v, t) ==
    CASE p = "prox_l0" -> ProxL0(v, t)
      [] p = "prox_l1" -> ProxL1(v, t)
      [] p = "prox_l2" -> ProxL2(v, t)
      [] OTHER         -> ProxCad(v, t)

\* prox(m, t) for a scalar t, and prox(m, T) for a matrix T of m's shape.
ProxScalar(p, m, t) ==
    [i \in 1..NRows(m) |-> [j \in 1..NCols(m) |-> ProxEntry(p, m[i][j], t)]]
ProxMatrix(p, m, T) ==
    [i \in 1..NRows(m) |-> [j \in 1..NCols(m) |-> ProxEntry(p, m[i][j], T[i][j])]]

\* capped_simplex_projection(v, fraction): the Euclidean projection of v onto
\* { w : 0 <= w[i] <= 1, sum(w) = (1 - fraction) * n }.  It is
\* w[i] = clip(v[i] - tau, 0, 1) for the tau that gives the sum; the sum is
\* piecewise linear and non-increasing in tau, with breakpoints v[i], v[i]-1.
Clip01(p) == Max(Min(p, One), Zero)
ClippedShift(v, tau) == [i \in 1..Len(v) |-> Clip01(Sub(v[i], tau))]
ClippedSum(v, tau) == SumSeq(ClippedShift(v, tau))
CappedSum(n, fraction) == Mul(Sub(One, fraction), Rat(n, 1))

\* The target sum is attainable: otherwise the root search fails with an error.
CappedSimplexFeasible(v, fraction) ==
    /\ Le(Zero, CappedSum(Len(v), fraction))
    /\ Le(CappedSum(Len(v), fraction), Rat(Len(v), 1))

RatMax(S) == CHOOSE b \in S : \A c \in S : Le(c, b)
RatMin(S) == CHOOSE b \in S : \A c \in S : Le(b, c)

CappedSimplexTau(v, fraction) ==
    LET s  == CappedSum(Len(v), fraction)
        B  == {v[i] : i \in 1..Len(v)} \cup {Sub(v[i], One) : i \in 1..Len(v)}
        eq == {b \in B : ClippedSum(v, b) = s}
    IN  IF eq # {} THEN RatMin(eq)
        ELSE LET b1 == RatMax({b \in B : Lt(s, ClippedSum(v, b))})
                 b2 == RatMin({b \in B : Lt(ClippedSum(v, b), s)})
                 g1 == ClippedSum(v, b1)
                 g2 == ClippedSum(v, b2)
             IN  Add(b1, Div(Mul(Sub(g1, s), Sub(b2, b1)), Sub(g1, g2)))

capped_simplex_projection(v, fraction) == ClippedShift(v, CappedSimplexTau(v, fraction))

\* The seed of coef_ that the caller (BaseOptimizer.fit) computes before
\* _reduce: ordinary least squares, lstsq(x, y).T, of shape targets x features.
\* With one feature it is (x'y) / (x'x).
Lstsq(x, y) == Transpose(MatDivScalar(Dot(Transpose(x), y), Dot(Transpose(x), x)[1][1]))

\* ------------------------------------------------------------------------
\* The optimizer object, the frame of _reduce, and what an observer sees
\* ------------------------------------------------------------------------

VARIABLES
    pc,            \* where the caller / _reduce stands
    args,          \* the arguments the constructor was called with
    raised,        \* the exception the last call raised, "none" if none
    attrs,         \* the names of the attributes set on the object
    threshold, thresholds, nu, tol, thresholder, prox,
    use_trimming, trimming_fraction, trimming_step_size,
    max_iter, initial_guess,
    coef_, coef_full_, history_, history_trimming_, self_trimming_array, iters,
    x, y, coef_sparse, coef_full, trimming_array, cho, x_transpose_y,
    trimming_grad, k,
    warned,        \* a ConvergenceWarning was emitted by the current / last fit
    crits,         \* the results of _convergence_criterion() < tol, per iteration
    n_factor,      \* the cho_factor calls of the current / last fit
    n_trimming,    \* the _update_trimming_array calls of the current / last fit
    outcome,       \* how the last fit ended
    stale          \* attributes whose value an earlier fit assigned

config == <<threshold, thresholds, nu, tol, thresholder, prox,
            trimming_step_size, max_iter, initial_guess>>
trimcfg == <<use_trimming, trimming_fraction>>
results == <<coef_, coef_full_, history_, history_trimming_, self_trimming_array, iters>>
frame == <<x, y, coef_sparse, coef_full, trimming_array, cho, x_transpose_y,
           trimming_grad, k>>
observed == <<warned, crits, n_factor, n_trimming, outcome, stale>>
vars == <<pc, args, raised, attrs, config, trimcfg, results, frame, observed>>

\* ------------------------------------------------------------------------
\* Inputs
\* ------------------------------------------------------------------------

\* The largest max_iter the constructor is given.
MaxIter == 2

\* A thresholds matrix has the shape targets x features.
ThresholdsOk  == <<<<Half>>, <<Zero>>>>
ThresholdsNeg == <<<<Half>>, <<Rat(-1, 1)>>>>

name_L0 == <<"L", "0">>
name_Weighted_L1 == <<"W", "e", "i", "g", "h", "t", "e", "d", "_", "L", "1">>
name_WEIGHTED_L2 == <<"W", "E", "I", "G", "H", "T", "E", "D", "_", "l", "2">>
name_CAD == <<"C", "A", "D">>
name_l3 == <<"l", "3">>

\* Every argument tuple the constructor is tried on.
CtorArgs ==
    [ threshold          : {Rat(-1, 10), Zero, Half},
      thresholds         : {None, ThresholdsOk, ThresholdsNeg},
      nu                 : {Rat(-1, 1), Zero, One},
      tol                : {Zero, Rat(1, 4)},
      thresholder        : {name_L0, str_l1, str_l2, name_CAD, str_weighted_l0,
                            name_Weighted_L1, name_WEIGHTED_L2, str_weighted, name_l3},
      trimming_fraction  : {Rat(-1, 2), Zero, Half, One, Rat(3, 2)},
      trimming_step_size : {One},
      max_iter           : 1..MaxIter,
      initial_guess      : {None} ]

\* The argument tuples of the optimizers that are then fitted.
FitArgs ==
    [ threshold          : {Rat(-1, 10), Half},
      thresholds         : {None, ThresholdsOk},
      nu                 : {One},
      tol                : {Rat(1, 4)},
      thresholder        : {name_L0, str_l1, str_weighted_l0},
      trimming_fraction  : {Zero, Half},
      trimming_step_size : {One},
      max_iter           : 1..MaxIter,
      initial_guess      : {None, <<<<Zero>>, <<Zero>>>>} ]

\* The arguments enable_trimming is called with.
TrimArgs == {Rat(-1, 2), Zero, Half, Rat(3, 2)}

\* The data sets (x: samples x features, y: samples x targets) of a fit.
Data ==
    { [x |-> <<<<One>>, <<Zero>>>>,
       y |-> <<<<One, Zero>>, <<Zero, Rat(4, 1)>>>>],
      [x |-> <<<<One>>, <<One>>>>,
       y |-> <<<<Rat(1, 4), Zero>>, <<Zero, Zero>>>>] }

\* ------------------------------------------------------------------------
\* SR3.__init__
\* ------------------------------------------------------------------------

\* The attributes SR3.__init__ itself assigns (lines 201-212).
SR3Fields == {"threshold", "thresholds", "nu", "tol", "thresholder", "prox",
              "use_trimming", "trimming_fraction", "trimming_step_size"}

\* The attributes the base constructor has assigned before the checks.
BaseFields == {"max_iter", "initial_guess"}

\* np.any(m < 0)
AnyNegative(m) == \E i \in 1..NRows(m) : \E j \in 1..NCols(m) : Lt(m[i][j], Zero)

IsWeighted(name) == Lower(Prefix(name, 8)) = str_weighted

\* The exception the checks of lines 156-199 raise for the arguments a, in the
\* order of the code; "none" if they all pass.
InitErrorNuStrict(a) ==
    IF Lt(a.threshold, Zero) THEN "ValueError"
    ELSE IF Lt(a.nu, Zero) THEN "ValueError"
    ELSE IF Le(a.tol, Zero) THEN "ValueError"
    ELSE IF Lt(a.trimming_fraction, Zero) \/ Lt(One, a.trimming_fraction) THEN "ValueError"
    ELSE IF Lower(a.thresholder) \notin ValidThresholders THEN "NotImplementedError"
    ELSE IF IsWeighted(a.thresholder) /\ a.thresholds = None THEN "ValueError"
    ELSE IF ~IsWeighted(a.thresholder) /\ a.thresholds # None THEN "ValueError"
    ELSE IF a.thresholds # None /\ AnyNegative(a.thresholds) THEN "ValueError"
    ELSE "none"

InitError(a) ==
    IF Lt(a.threshold, Zero) THEN "ValueError"
    ELSE IF Le(a.nu, Zero) THEN "ValueError"
    ELSE IF Le(a.tol, Zero) THEN "ValueError"
    ELSE IF Lt(a.trimming_fraction, Zero) \/ Lt(One, a.trimming_fraction) THEN "ValueError"
    ELSE IF Lower(a.thresholder) \notin ValidThresholders THEN "NotImplementedError"
    ELSE IF IsWeighted(a.thresholder) /\ a.thresholds = None THEN "ValueError"
    ELSE IF ~IsWeighted(a.thresholder) /\ a.thresholds # None THEN "ValueError"
    ELSE IF a.thresholds # None /\ AnyNegative(a.thresholds) THEN "ValueError"
    ELSE "none"

Init ==
    /\ pc = "new"
    /\ args = None
    /\ raised = "none"
    /\ attrs = {}
    /\ threshold = None /\ thresholds = None /\ nu = None /\ tol = None
    /\ thresholder = None /\ prox = "unset"
    /\ use_trimming = FALSE /\ trimming_fraction = None /\ trimming_step_size = None
    /\ max_iter = 0 /\ initial_guess = None
    /\ coef_ = None /\ coef_full_ = None /\ history_ = <<>> /\ history_trimming_ = <<>>
    /\ self_trimming_array = None /\ iters = 0
    /\ x = None /\ y = None /\ coef_sparse = None /\ coef_full = None
    /\ trimming_array = None /\ cho = None /\ x_transpose_y = None
    /\ trimming_grad = None /\ k = 0
    /\ warned = FALSE /\ crits = <<>> /\ n_factor = 0 /\ n_trimming = 0
    /\ outcome = "none" /\ stale = {}

\* SR3(**a): lines 133-212.
Construct(a) ==
    /\ pc = "new"
    /\ args' = a
    /\ max_iter' = a.max_iter
    /\ initial_guess' = a.initial_guess
    /\ IF InitError(a) # "none"
       THEN /\ raised' = InitError(a)
            /\ pc' = "unusable"
            /\ attrs' = BaseFields
            /\ UNCHANGED <<threshold, thresholds, nu, tol, thresholder, prox,
                           trimming_step_size, trimcfg>>
       ELSE /\ raised' = "none"
            /\ pc' = "idle"
            /\ attrs' = BaseFields \cup SR3Fields
            /\ threshold' = a.threshold
            /\ thresholds' = a.thresholds
            /\ nu' = a.nu
            /\ tol' = a.tol
            /\ thresholder' = a.thresholder
            /\ prox' = get_prox(a.thresholder)
            /\ use_trimming' = (a.trimming_fraction # Zero)
            /\ trimming_fraction' = a.trimming_fraction
            /\ trimming_step_size' = a.trimming_step_size
    /\ UNCHANGED <<results, frame, observed>>

\* The constructor on every argument tuple of CtorArgs.
ConstructAny == \E a \in CtorArgs : Construct(a)

\* The constructor of an optimizer that is fitted afterwards.
ConstructForFit == \E a \in FitArgs : Construct(a)

\* ------------------------------------------------------------------------
\* enable_trimming, disable_trimming
\* ------------------------------------------------------------------------

\* enable_trimming(f): lines 214-225.
enable_trimming(f) ==
    /\ pc = "idle"
    /\ use_trimming' = TRUE
    /\ trimming_fraction' = f
    /\ UNCHANGED <<pc, args, raised, attrs, config, results, frame, observed>>

EnableTrimming == \E f \in TrimArgs : enable_trimming(f)

\* disable_trimming(): lines 227-230.
disable_trimming ==
    /\ pc = "idle"
    /\ use_trimming' = FALSE
    /\ trimming_fraction' = None
    /\ UNCHANGED <<pc, args, raised, attrs, config, results, frame, observed>>

\* ------------------------------------------------------------------------
\* _reduce and its helpers
\* ------------------------------------------------------------------------

\* RowWeighted with the weights forgotten.
RowWeightedUnweighted(m, w) == m

\* x * w.reshape(n_samples, 1): row i of m scaled by w[i] (line 300).
RowWeighted(m, w) == [i \in 1..NRows(m) |-> [j \in 1..NCols(m) |-> Mul(m[i][j], w[i])]]

\* np.dot(xw.T, m) + np.diag(np.full(n_features, 1 / nu)) for one feature
\* (lines 295 and 302-303): the 1 x 1 matrix that cho_factor factorizes.
Gram(xw, m, v) == Add(Dot(Transpose(xw), m)[1][1], Div(One, v))

\* cho_factor succeeds on a positive definite matrix only.
PositiveDefinite(g) == Lt(Zero, g)

\* cho_solve(cho, b) for the 1 x 1 factorized matrix g.
cho_solve(g, b) == MatDivScalar(b, g)

\* 0.5 * np.sum((y - x.dot(coef_full)) ** 2, axis=1) (line 306)
TrimmingGrad(xm, ym, w) ==
    LET r == MatSub(ym, Dot(xm, w))
    IN  [i \in 1..NRows(r) |-> Mul(Half, SumSeq([j \in 1..NCols(r) |-> Sq(r[i][j])]))]

\* np.repeat(1.0 - trimming_fraction, n_samples) (line 290)
Repeat(v, n) == [i \in 1..n |-> v]

\* sqrt(a) + sqrt(b) < c for a, b >= 0, without taking roots.
SqrtSumLt(a, b, c) ==
    LET r == Sub(Sq(c), Add(a, b))
    IN  /\ Lt(Zero, c)
        /\ Lt(Zero, r)
        /\ Lt(Mul(Rat(4, 1), Mul(a, b)), Sq(r))

\* _update_sparse_coef(coef_full): lines 239-245.
update_sparse_coef(w) ==
    IF thresholds = None
    THEN ProxScalar(prox, w, threshold)
    ELSE ProxMatrix(prox, w, Transpose(thresholds))

\* ErrCoefSq with the previous entry never read (last_coef always zero).
ErrCoefSqNoLast(h) ==
    LET this_coef == h[Len(h)]
        last_coef == ZerosLike(this_coef)
    IN  Div(SumSquares(MatSub(this_coef, last_coef)), Sq(nu))

\* The square of err_coef, lines 257-262.
ErrCoefSq(h) ==
    LET this_coef == h[Len(h)]
        last_coef == IF Len(h) > 1 THEN h[Len(h) - 1] ELSE ZerosLike(this_coef)
    IN  Div(SumSquares(MatSub(this_coef, last_coef)), Sq(nu))

\* The square of err_trimming, lines 264-272.
ErrTrimmingSq(h) ==
    LET this_trimming_array == h[Len(h)]
        last_trimming_array == IF Len(h) > 1 THEN h[Len(h) - 1]
                               ELSE VecZerosLike(this_trimming_array)
    IN  Div(VecSumSquares(VecSub(this_trimming_array, last_trimming_array)),
            Sq(trimming_step_size))

\* self._convergence_criterion() < self.tol: lines 255-274 and 316.
ConvergedNow ==
    IF use_trimming
    THEN SqrtSumLt(ErrCoefSq(history_), ErrTrimmingSq(history_trimming_), tol)
    ELSE SqrtSumLt(ErrCoefSq(history_), Zero, tol)

\* The frame of _reduce is gone once it has returned or raised.
DropFrame ==
    /\ x' = None /\ y' = None /\ coef_sparse' = None /\ coef_full' = None
    /\ trimming_array' = None /\ cho' = None /\ x_transpose_y' = None
    /\ trimming_grad' = None /\ k' = 0

\* An exception leaves _reduce and fit.
Raise ==
    /\ pc' = "idle"
    /\ outcome' = "raised"
    /\ DropFrame

\* What the caller of _reduce (the fit of the base optimizer) does first: it
\* resets the iteration counter and the history and seeds coef_ by least
\* squares.  The history starts empty: it records V from iteration 1 on.
BaseFit ==
    /\ iters' = 0
    /\ history_' = <<>>
    /\ warned' = FALSE
    /\ crits' = <<>>
    /\ n_factor' = 1
    /\ n_trimming' = 0
    /\ outcome' = "running"

\* _reduce(x, y) up to the loop: lines 282-296.
ReduceBegin(d) ==
    /\ pc' = "head"
    /\ x' = d.x
    /\ y' = d.y
    /\ coef_' = IF initial_guess # None THEN initial_guess ELSE Lstsq(d.x, d.y)
    /\ coef_sparse' = Transpose(coef_')
    /\ IF use_trimming
       THEN /\ coef_full' = coef_sparse'
            /\ trimming_array' = Repeat(Sub(One, trimming_fraction), NRows(d.x))
            /\ history_trimming_' = <<trimming_array'>>
            /\ attrs' = attrs \cup {"coef_", "history_", "iters", "history_trimming_"}
            /\ stale' = (attrs \cap {"trimming_array"})
       ELSE /\ coef_full' = None
            /\ trimming_array' = None
            /\ attrs' = attrs \cup {"coef_", "history_", "iters"}
            /\ stale' = (attrs \cap {"trimming_array", "history_trimming_"})
            /\ UNCHANGED history_trimming_
    /\ cho' = Gram(d.x, d.x, nu)
    /\ x_transpose_y' = Dot(Transpose(d.x), d.y)
    /\ trimming_grad' = None
    /\ k' = 0

\* fit(x, y) on the data d, up to the first pass of the loop.
Fit(d) ==
    /\ pc = "idle"
    /\ BaseFit
    /\ ReduceBegin(d)
    /\ UNCHANGED <<args, raised, config, trimcfg, coef_full_, self_trimming_array>>

FitAny == \E d \in Data : Fit(d)

\* One more pass of "for _ in range(self.max_iter)", lines 298-306.
ForBody ==
    /\ pc = "head"
    /\ k < max_iter
    /\ IF use_trimming
       THEN LET x_weighted == RowWeighted(x, trimming_array)
                g == Gram(x_weighted, x, nu)
            IN  IF PositiveDefinite(g)
                THEN /\ cho' = g
                     /\ x_transpose_y' = Dot(Transpose(x_weighted), y)
                     /\ trimming_grad' = TrimmingGrad(x, y, coef_full)
                     /\ n_factor' = n_factor + 1
                     /\ k' = k + 1
                     /\ pc' = "solve"
                     /\ UNCHANGED <<x, y, coef_sparse, coef_full, trimming_array, outcome>>
                ELSE /\ Raise
                     /\ n_factor' = n_factor + 1
       ELSE /\ k' = k + 1
            /\ pc' = "solve"
            /\ UNCHANGED <<x, y, coef_sparse, coef_full, trimming_array, cho,
                           x_transpose_y, trimming_grad, n_factor, outcome>>
    /\ UNCHANGED <<args, raised, attrs, config, trimcfg, results,
                   warned, crits, n_trimming, stale>>

\* UpdateFullCoef without "self.iters += 1".
UpdateFullCoefNoCount ==
    /\ pc = "solve"
    /\ LET b == MatAdd(x_transpose_y, MatDivScalar(coef_sparse, nu))
       IN  coef_full' = cho_solve(cho, b)
    /\ pc' = "prox"
    /\ UNCHANGED <<args, raised, attrs, config, trimcfg, observed, results,
                   x, y, coef_sparse, trimming_array, cho, x_transpose_y,
                   trimming_grad, k>>

\* coef_full = self._update_full_coef(cho, x_transpose_y, coef_sparse):
\* line 307 and lines 232-237.
UpdateFullCoef ==
    /\ pc = "solve"
    /\ LET b == MatAdd(x_transpose_y, MatDivScalar(coef_sparse, nu))
       IN  coef_full' = cho_solve(cho, b)
    /\ iters' = iters + 1
    /\ pc' = "prox"
    /\ UNCHANGED <<args, raised, attrs, config, trimcfg, observed,
                   coef_, coef_full_, history_, history_trimming_, self_trimming_array,
                   x, y, coef_sparse, trimming_array, cho, x_transpose_y,
                   trimming_grad, k>>

\* coef_sparse = self._update_sparse_coef(coef_full) and the append to
\* history_: lines 308-309.
UpdateSparseCoef ==
    /\ pc = "prox"
    /\ coef_sparse' = update_sparse_coef(coef_full)
    /\ history_' = Append(history_, Transpose(coef_sparse'))
    /\ pc' = "trim"
    /\ UNCHANGED <<args, raised, attrs, config, trimcfg, observed,
                   coef_, coef_full_, history_trimming_, self_trimming_array, iters,
                   x, y, coef_full, trimming_array, cho, x_transpose_y,
                   trimming_grad, k>>

\* "if self.use_trimming: trimming_array = self._update_trimming_array(...)":
\* lines 311-314 and 247-253.
UpdateTrimmingArray ==
    /\ pc = "trim"
    /\ IF use_trimming
       THEN LET stepped == VecSub(trimming_array,
                               [i \in 1..Len(trimming_grad) |->
                                   Mul(trimming_step_size, trimming_grad[i])])
            IN  IF CappedSimplexFeasible(stepped, trimming_fraction)
                THEN /\ trimming_array' =
                            capped_simplex_projection(stepped, trimming_fraction)
                     /\ history_trimming_' = Append(history_trimming_, trimming_array')
                     /\ n_trimming' = n_trimming + 1
                     /\ pc' = "check"
                     /\ UNCHANGED <<x, y, coef_sparse, coef_full, cho, x_transpose_y,
                                    trimming_grad, k, outcome>>
                ELSE /\ Raise
                     /\ n_trimming' = n_trimming + 1
                     /\ UNCHANGED history_trimming_
       ELSE /\ pc' = "check"
            /\ UNCHANGED <<frame, history_trimming_, n_trimming, outcome>>
    /\ UNCHANGED <<args, raised, attrs, config, trimcfg, coef_, coef_full_, history_,
                   self_trimming_array, iters, warned, crits, n_factor, stale>>

\* CheckConvergence with the warning tied to the last pass instead of to the
\* loop's else clause: a fit that converges on pass max_iter warns too.
CheckConvergenceWarnOnLastPass ==
    /\ pc = "check"
    /\ crits' = Append(crits, ConvergedNow)
    /\ pc' = IF ConvergedNow THEN "final" ELSE "head"
    /\ warned' = (k >= max_iter)
    /\ UNCHANGED <<args, raised, attrs, config, trimcfg, results, frame,
                   n_factor, n_trimming, outcome, stale>>

\* "if self._convergence_criterion() < self.tol: break": lines 316-318.
CheckConvergence ==
    /\ pc = "check"
    /\ crits' = Append(crits, ConvergedNow)
    /\ pc' = IF ConvergedNow THEN "final" ELSE "head"
    /\ UNCHANGED <<args, raised, attrs, config, trimcfg, results, frame,
                   warned, n_factor, n_trimming, outcome, stale>>

\* The else clause of the for loop: lines 319-325.
ForElse ==
    /\ pc = "head"
    /\ k >= max_iter
    /\ warned' = TRUE
    /\ pc' = "final"
    /\ UNCHANGED <<args, raised, attrs, config, trimcfg, results, frame,
                   crits, n_factor, n_trimming, outcome, stale>>

\* Lines 326-329, and the return.
Finalize ==
    /\ pc = "final"
    /\ coef_' = Transpose(coef_sparse)
    /\ coef_full_' = Transpose(coef_full)
    /\ IF use_trimming
       THEN /\ self_trimming_array' = trimming_array
            /\ attrs' = attrs \cup {"coef_full_", "trimming_array"}
            /\ stale' = stale \ {"trimming_array"}
       ELSE /\ attrs' = attrs \cup {"coef_full_"}
            /\ UNCHANGED <<self_trimming_array, stale>>
    /\ outcome' = IF warned THEN "exhausted" ELSE "converged"
    /\ pc' = "idle"
    /\ DropFrame
    /\ UNCHANGED <<args, raised, config, trimcfg, history_, history_trimming_, iters,
                   warned, crits, n_factor, n_trimming>>

\* ------------------------------------------------------------------------
\* Properties
\* ------------------------------------------------------------------------

\* _reduce is running.
InFit == pc \in {"head", "solve", "prox", "trim", "check", "final"}

\* fit has returned normally.
FitReturned == pc = "idle" /\ outcome \in {"converged", "exhausted"}

IsPrefixOf(s1, s2) == Len(s1) <= Len(s2) /\ SubSeq(s2, 1, Len(s1)) = s1

\* The configurations the constructor has to reject.
BadConfig(a) ==
    \/ Lt(a.threshold, Zero)
    \/ Le(a.nu, Zero)
    \/ Le(a.tol, Zero)
    \/ Lt(a.trimming_fraction, Zero)
    \/ Lt(One, a.trimming_fraction)
    \/ Lower(a.thresholder) \notin {str_l0, str_l1, str_l2, str_cad,
                                    str_weighted_l0, str_weighted_l1, str_weighted_l2}
    \/ /\ Lower(a.thresholder) \in {str_weighted_l0, str_weighted_l1, str_weighted_l2}
       /\ a.thresholds = None
    \/ /\ Lower(a.thresholder) \in {str_l0, str_l1, str_l2, str_cad}
       /\ a.thresholds # None
    \/ /\ a.thresholds # None
       /\ \E i \in 1..Len(a.thresholds) : \E j \in 1..Len(a.thresholds[i]) :
             a.thresholds[i][j][1] < 0

\* C1: the constructor raises, and sets none of the SR3 fields, exactly for
\* the configurations with a negative threshold, a non-positive nu or tol, a
\* trimming_fraction outside [0,1], an unknown thresholder, a weighted
\* thresholder without thresholds, thresholds without a weighted thresholder,
\* or a negative entry in thresholds; on every other configuration it
\* succeeds and sets them all.
C1_ConstructorValidation ==
    pc # "new" =>
        IF BadConfig(args)
        THEN raised # "none" /\ attrs \cap SR3Fields = {} /\ pc = "unusable"
        ELSE raised = "none" /\ SR3Fields \subseteq attrs /\ pc = "idle"

\* Scenario B: a weighted thresholder, thresholds = None, all else valid.
C1_Witness ==
    /\ pc = "unusable"
    /\ raised = "ValueError"
    /\ args.thresholder = str_weighted_l0
    /\ args.thresholds = None
    /\ args.threshold = Half /\ args.nu = One /\ args.tol = Rat(1, 4)
    /\ args.trimming_fraction = Zero

\* C2: a fit runs at most max_iter iterations; every completed iteration has
\* appended exactly one snapshot of V to history_ and raised iters by one, so
\* that the entries appended are as many as the iterations performed; and no
\* step of the fit changes or removes an entry that is already there.
C2_HistoryCountsIterations ==
    /\ [](InFit \/ FitReturned =>
            /\ iters <= max_iter
            /\ Len(history_) = IF pc = "prox" THEN iters - 1 ELSE iters
            /\ (InFit => iters = IF pc = "solve" THEN k - 1 ELSE k))
    /\ [][InFit =>
            /\ IsPrefixOf(history_, history_')
            /\ Len(history_') <= Len(history_) + 1
            /\ (Len(history_') = Len(history_) + 1 =>
                    history_'[Len(history_')] = Transpose(coef_sparse'))
            /\ iters' \in {iters, iters + 1}]_vars

\* A fit that performed two iterations and returned.
C2_Witness ==
    /\ FitReturned
    /\ iters = 2
    /\ Len(history_) = 2
    /\ history_[1] # history_[2]

\* C3: the criterion is evaluated once per completed iteration, at its end;
\* an iteration whose criterion is below tol is the last one (the loop is
\* left, and from then on the histories and iters stay as they are and the
\* results are the V, W and weights of that iteration); without trimming, two
\* identical last entries of history_ make the criterion 0 and end the loop.
C3_ConvergedStops ==
    /\ [](InFit =>
            Len(crits) = IF pc \in {"head", "final"} THEN iters ELSE k - 1)
    /\ [][pc = "check" =>
            /\ (crits'[Len(crits')] => pc' = "final" /\ ~warned')
            /\ (~crits'[Len(crits')] => pc' = "head")
            /\ (/\ ~use_trimming
                /\ Len(history_) > 1
                /\ history_[Len(history_)] = history_[Len(history_) - 1]
                => crits'[Len(crits')])]_vars
    /\ [][pc = "final" =>
            /\ pc' = "idle"
            /\ UNCHANGED <<history_, history_trimming_, iters, crits>>
            /\ coef_' = history_[Len(history_)]
            /\ (use_trimming => self_trimming_array' = trimming_array)]_vars

\* Without trimming, the second iteration repeats the (nonzero) V of the first.
C3_Witness ==
    /\ pc = "final"
    /\ ~warned
    /\ ~use_trimming
    /\ Len(history_) > 1
    /\ history_[Len(history_)] = history_[Len(history_) - 1]
    /\ history_[Len(history_)] # ZerosLike(history_[Len(history_)])

\* C4: a fit warns exactly when it performed all max_iter iterations and none
\* of them ended with the criterion below tol; converged or not, it raises
\* nothing and returns the V and W of the last iteration performed.
C4_WarningIffExhausted ==
    /\ [](FitReturned =>
            /\ warned <=> (iters = max_iter /\ \A i \in 1..Len(crits) : ~crits[i])
            /\ (outcome = "exhausted") <=> warned
            /\ coef_ = history_[Len(history_)])
    /\ [][pc = "final" =>
            /\ coef_' = Transpose(coef_sparse)
            /\ coef_full_' = Transpose(coef_full)
            /\ {"coef_", "coef_full_"} \subseteq attrs'
            /\ outcome' \in {"converged", "exhausted"}]_vars

\* Convergence on the last permitted iteration: no warning.
C4_Witness ==
    /\ FitReturned
    /\ outcome = "converged"
    /\ iters = max_iter
    /\ max_iter > 1
    /\ ~warned

\* The feasible set of the trimming weights for the fraction f.
InCappedSimplex(w, f) ==
    /\ \A i \in 1..Len(w) : Le(Zero, w[i]) /\ Le(w[i], One)
    /\ SumSeq(w) = Mul(Sub(One, f), Rat(Len(w), 1))

\* C5: while a fit with trimming runs, the trimming weights, and every entry
\* of history_trimming_, lie in [0,1] and sum to (1 - trimming_fraction) * n.
C5_TrimmingWeightsFeasible ==
    InFit /\ use_trimming =>
        /\ InCappedSimplex(trimming_array, trimming_fraction)
        /\ \A i \in 1..Len(history_trimming_) :
              InCappedSimplex(history_trimming_[i], trimming_fraction)

\* C6: with trimming_fraction = 0.0 a fit never invokes the trimming module:
\* no reweighted factorization, no trimming gradient, no weight update.
C6_ZeroFractionNoTrimming ==
    InFit /\ trimming_fraction = Zero =>
        /\ n_trimming = 0
        /\ n_factor = 1
        /\ trimming_grad = None

\* C7: the gradient that an iteration's trimming update uses is computed from
\* the W that the same iteration produced.
C7_GradientFromCurrentW ==
    pc = "check" /\ use_trimming => trimming_grad = TrimmingGrad(x, y, coef_full)

\* The Gram matrix and right-hand side for the sample weights w, written out.
WeightedGramOf(w) ==
    Add(SumSeq([i \in 1..Len(w) |-> Mul(w[i], Sq(x[i][1]))]), Div(One, nu))
WeightedRhsOf(w) ==
    <<[j \in 1..Len(y[1]) |-> SumSeq([i \in 1..Len(w) |-> Mul(w[i], Mul(x[i][1], y[i][j]))])]>>

\* C8 as claimed: without trimming one factorization per fit; with trimming
\* one per iteration and none besides.
C8_FactorizationsAsClaimed ==
    InFit => n_factor = IF use_trimming THEN k ELSE 1

\* C8: without trimming one factorization is computed per fit, before the
\* first iteration, and every solve uses it.  With trimming one (unweighted,
\* never used by a solve) is computed before the loop and one more in every
\* iteration, and the factorization and right-hand side of iteration k's
\* solve are built from the weights of iteration k-1's trimming update (the
\* initial uniform weights for k = 1).
C8_Factorizations ==
    InFit =>
        IF use_trimming
        THEN /\ n_factor = 1 + k
             /\ pc \in {"solve", "prox"} =>
                   /\ Len(history_trimming_) = k
                   /\ cho = WeightedGramOf(history_trimming_[k])
                   /\ x_transpose_y = WeightedRhsOf(history_trimming_[k])
        ELSE /\ n_factor = 1
             /\ pc \in {"solve", "prox"} =>
                   /\ cho = WeightedGramOf([i \in 1..Len(x) |-> One])
                   /\ x_transpose_y = WeightedRhsOf([i \in 1..Len(x) |-> One])

\* The second iteration's solve, after a trimming update that moved the weights.
C8_Witness ==
    /\ pc = "solve"
    /\ use_trimming
    /\ k = 2
    /\ n_factor = 3
    /\ history_trimming_[2] # history_trimming_[1]
    /\ cho # WeightedGramOf(history_trimming_[1])

\* C9: after a fit has returned, the trimming weights and the trimming
\* history that the optimizer holds were created by that fit.
C9_NoStaleTrimmingState ==
    FitReturned => stale = {}

\* C10: a constructed optimizer's trimming_fraction is a number in [0,1].
C10_FractionInRange ==
    pc \notin {"new", "unusable"} =>
        /\ trimming_fraction # None
        /\ Le(Zero, trimming_fraction)
        /\ Le(trimming_fraction, One)

\* ------------------------------------------------------------------------
\* Specifications
\* ------------------------------------------------------------------------

Next ==
    \/ ConstructForFit
    \/ EnableTrimming
    \/ disable_trimming
    \/ FitAny
    \/ ForBody
    \/ UpdateFullCoef
    \/ UpdateSparseCoef
    \/ UpdateTrimmingArray
    \/ CheckConvergence
    \/ ForElse
    \/ Finalize

Spec == Init /\ [][Next]_vars

NextCtor == ConstructAny
SpecCtor == Init /\ [][NextCtor]_vars

====
